---- MODULE Spec2Model ----
(***************************************************************************)
(* Model of the resource manager and real-time task scheduler of           *)
(* arona_resource_manager.py: HardwareStatus, AGI_Task, ResourceManager    *)
(* and RealTimeScheduler.                                                  *)
(*                                                                         *)
(* Every quantity the Python code holds in a float (capacities, requests,  *)
(* allocated, available) is a binary floating-point number here as well:   *)
(* a value is an integer count of 2^-GridBits units that has at most       *)
(* MantissaBits significant bits, and every arithmetic operation rounds    *)
(* its exact result to nearest, ties to even, as IEEE-754 does.  The code  *)
(* runs with 53 significant bits; the model keeps the rounding and bounds  *)
(* the width.                                                              *)
(***************************************************************************)
EXTENDS Integers, Sequences, FiniteSets, TLC

(***************************************************************************)
(* Bounds of the model.                                                    *)
(***************************************************************************)
MantissaBits == 8
MaxTasks == 4
MaxApiTasks == 2
MaxAnyTasks == 3
MaxExternal == 1
MaxDirect == 3
MaxNpuTasks == 3
MaxWindowTasks == 3
MaxSubmits == 3
MaxLoadTasks == 8

GridBits == MantissaBits + 6
LitBits == MantissaBits + 10

(***************************************************************************)
(* Floating point: Python float arithmetic.                                *)
(***************************************************************************)
RECURSIVE Pow2(_)
Pow2(n) == IF n <= 0 THEN 1 ELSE 2 * Pow2(n - 1)

\* number of bits of a non-negative integer
RECURSIVE BitLen(_)
BitLen(n) == IF n <= 0 THEN 0 ELSE 1 + BitLen(n \div 2)

Max2(a, b) == IF a >= b THEN a ELSE b
Min2(a, b) == IF a <= b THEN a ELSE b

\* m / q rounded to the nearest integer, ties to the even one
RoundHalfEven(m, q) ==
    LET lo == m \div q
        rem == m - lo * q
    IN IF 2 * rem > q \/ (2 * rem = q /\ lo % 2 = 1) THEN lo + 1 ELSE lo

\* the float nearest to the exact value m * 2^s grid units (m >= 0)
RoundShift(m, s) ==
    IF m = 0 THEN 0
    ELSE LET qe == Max2(BitLen(m) + s - MantissaBits, 0)
             t == qe - s
         IN IF t <= 0 THEN m * Pow2(s)
            ELSE RoundHalfEven(m, Pow2(t)) * Pow2(qe)

\* a decimal or integer literal num/den of the source text
FLit(num, den) ==
    LET scaled == (IF num < 0 THEN 0 - num ELSE num) * Pow2(LitBits)
        q == scaled \div den
        sticky == IF scaled % den = 0 THEN 0 ELSE 1
        r == RoundShift(2 * q + sticky, GridBits - LitBits - 1)
    IN IF num < 0 THEN 0 - r ELSE r

RECURSIVE TrailingZeros(_)
TrailingZeros(n) == IF n = 0 \/ n % 2 = 1 THEN 0 ELSE 1 + TrailingZeros(n \div 2)

FAbs(a) == IF a < 0 THEN 0 - a ELSE a

\* a + b
FAdd(a, b) ==
    LET x == a + b IN IF x >= 0 THEN RoundShift(x, 0) ELSE 0 - RoundShift(0 - x, 0)

\* a - b
FSub(a, b) == FAdd(a, 0 - b)

\* a * b
FMul(a, b) ==
    LET ea == TrailingZeros(FAbs(a))
        eb == TrailingZeros(FAbs(b))
        ma == FAbs(a) \div Pow2(ea)
        mb == FAbs(b) \div Pow2(eb)
        r == RoundShift(ma * mb, ea + eb - GridBits)
    IN IF (a < 0) = (b < 0) THEN r ELSE 0 - r

\* max(0.0, x)
FMax0(x) == IF x < 0 THEN 0 ELSE x

\* round(x, 2): the decimal with two places nearest to x, ties to even,
\* as its number of hundredths
Round2(x) ==
    LET h == RoundHalfEven(FAbs(x) * 100, Pow2(GridBits))
    IN IF x < 0 THEN 0 - h ELSE h

(***************************************************************************)
(* Configuration: arona_resource_manager.py, section 1.                    *)
(***************************************************************************)
TOTAL_CPU_CORES == 8
TOTAL_GPU_POWER == 100
TOTAL_RAM_GB == 16
MAX_ALLOCATION_PER_TASK == FLit(50, 100)

\* TaskPriority
CRITICAL == 5
REAL_TIME == 4
HIGH == 3
MEDIUM == 2
LOW == 1

\* dispatch_tasks: default max_tasks_to_check, and the per-cycle limit
MaxTasksToCheck == 5
MaxDispatchPerCycle == 2

\* keys of ResourceManager.hardware
Kinds == {"CPU", "GPU", "RAM"}

\* a name is a string: the sequence of its characters
KeyName(k) ==
    CASE k = "CPU" -> <<"C", "P", "U">>
      [] k = "GPU" -> <<"G", "P", "U">>
      [] k = "RAM" -> <<"R", "A", "M">>

\* sub in name
Contains(sub, name) ==
    \E i \in 0 .. (Len(name) - Len(sub)) :
        \A j \in 1 .. Len(sub) : name[i + j] = sub[j]

\* the weight of a kind in the request of a task
Weight(k) ==
    CASE k = "CPU" -> FLit(2, 10)
      [] k = "GPU" -> FLit(1, 10)
      [] k = "RAM" -> FLit(5, 10)

(***************************************************************************)
(* Inputs.                                                                 *)
(***************************************************************************)
eGPU_X == <<"e", "G", "P", "U", "_", "X">>
ExtRAM == <<"E", "x", "t", "R", "A", "M">>
NPU_X == <<"N", "P", "U", "_", "X">>
ExternalNames == {eGPU_X, ExtRAM, NPU_X}
\* the name of an internal resource, and the name of an external processor
GPU_Internal == <<"G", "P", "U", "_", "I", "n", "t", "e", "r", "n", "a", "l">>
ExtCPU == <<"E", "x", "t", "C", "P", "U">>
OtherNames == {GPU_Internal, ExtCPU}
Capacities == {FLit(250, 1)}
Priorities == {HIGH, CRITICAL}
Complexities == {FLit(4, 10), FLit(10, 10)}
\* the tasks of the producers: critical ones of full complexity, which take
\* half of the RAM each, and lighter ones of high priority
TaskKinds == {[priority |-> CRITICAL, complexity |-> FLit(10, 10)],
              [priority |-> HIGH, complexity |-> FLit(4, 10)]}
\* complexity is not validated: values outside the documented 0.1 - 1.0
\* values of max_tasks_to_check: a narrow window and the default
Windows == {1, MaxTasksToCheck}
AnyComplexities == Complexities \cup {FLit(-10, 10), 0, FLit(30, 10), FLit(60, 10)}

(***************************************************************************)
(* HardwareStatus                                                          *)
(***************************************************************************)
HardwareStatus(name, total_capacity, unit) ==
    [name |-> name, total |-> total_capacity, unit |-> unit,
     allocated |-> 0, available |-> FSub(total_capacity, 0),
     is_external |-> FALSE]

\* mutant: the usage is stored as it comes
update_usage_unfloored(hw, usage) ==
    [hw EXCEPT !.allocated = usage, !.available = FSub(hw.total, usage)]

update_usage(hw, usage) ==
    LET a == FMax0(usage)
    IN [hw EXCEPT !.allocated = a, !.available = FSub(hw.total, a)]

to_dict(hw) ==
    [name |-> hw.name, total |-> hw.total, unit |-> hw.unit,
     allocated |-> Round2(hw.allocated), available |-> Round2(hw.available),
     is_external |-> hw.is_external]

(***************************************************************************)
(* AGI_Task                                                                *)
(***************************************************************************)
\* mutant: the requests are not limited
calculate_request_unclamped(complexity) ==
    [CPU |-> FMul(FMul(complexity, FLit(2, 10)), FLit(TOTAL_CPU_CORES, 1)),
     GPU |-> FMul(FMul(complexity, FLit(1, 10)), FLit(TOTAL_GPU_POWER, 1)),
     RAM |-> FMul(FMul(complexity, FLit(5, 10)), FLit(TOTAL_RAM_GB, 1))]

calculate_request(complexity) ==
    LET cpu_req == FMul(complexity, FLit(2, 10))
        gpu_req == FMul(complexity, FLit(1, 10))
        ram_req == FMul(complexity, FLit(5, 10))
    IN [CPU |-> Min2(FMul(cpu_req, FLit(TOTAL_CPU_CORES, 1)),
                     FMul(MAX_ALLOCATION_PER_TASK, FLit(TOTAL_CPU_CORES, 1))),
        GPU |-> Min2(FMul(gpu_req, FLit(TOTAL_GPU_POWER, 1)),
                     FMul(MAX_ALLOCATION_PER_TASK, FLit(TOTAL_GPU_POWER, 1))),
        RAM |-> Min2(FMul(ram_req, FLit(TOTAL_RAM_GB, 1)),
                     FMul(MAX_ALLOCATION_PER_TASK, FLit(TOTAL_RAM_GB, 1)))]

AGI_Task(priority, complexity) ==
    [priority |-> priority, complexity |-> complexity,
     resource_request |-> calculate_request(complexity),
     status |-> "Pending"]

(***************************************************************************)
(* State.                                                                  *)
(*   hardware           ResourceManager.hardware                           *)
(*   external_hardware  ResourceManager.external_hardware                  *)
(*   tasks              the AGI_Task objects created so far; a task's id   *)
(*                      is its index                                       *)
(*   task_queue         RealTimeScheduler.task_queue                       *)
(*   running_tasks      RealTimeScheduler.running_tasks, in insertion      *)
(*                      order of the dict                                  *)
(*   finished_tasks     RealTimeScheduler.finished_tasks                   *)
(*   last               history: the last call and what it did; for a      *)
(*                      dispatch or a release, the hardware it started     *)
(*                      from; for a dispatch, the tasks                    *)
(*                      it reaped and, for each task it tried to admit,    *)
(*                      the hardware it found                              *)
(*   hist               history: the number of tasks submitted, the        *)
(*                      admissions in order (with the number of tasks      *)
(*                      submitted by then and the request that was         *)
(*                      reserved), the number of direct calls,             *)
(*                      the tasks on which execute_and_finish was called   *)
(*   drivers            the threads that call dispatch_tasks: whether      *)
(*                      they exclude each other, where each of them is in  *)
(*                      its call and its local variables, and how many     *)
(*                      reservations each task holds                       *)
(*   kgm                the KnowledgeGraphManager of the task producers:   *)
(*                      entities by uid, relationships by uid,             *)
(*                      entity_name_map and the two counters               *)
(***************************************************************************)
VARIABLES hardware, external_hardware, tasks, task_queue, running_tasks,
          finished_tasks, last, hist, drivers, kgm

vars == <<hardware, external_hardware, tasks, task_queue, running_tasks,
          finished_tasks, last, hist, drivers, kgm>>

\* elements of a sequence
Range(s) == {s[i] : i \in 1 .. Len(s)}

\* mutant: the element stays where it is
RemoveNone(s, x) == s

\* deque.remove(x) / del dict[x]: drops the first occurrence
RECURSIVE Remove(_, _)
Remove(s, x) ==
    IF s = <<>> THEN <<>>
    ELSE IF Head(s) = x THEN Tail(s)
    ELSE <<Head(s)>> \o Remove(Tail(s), x)

\* dict[x] = v: a new key goes last, an existing key keeps its place
DictInsert(s, x) == IF x \in Range(s) THEN s ELSE Append(s, x)

\* the record of a call
Call(op) ==
    [op |-> op, task |-> 0, name |-> <<>>, capacity |-> 0, ok |-> FALSE,
     found |-> <<>>, reaped |-> <<>>, scan |-> <<>>, report |-> <<>>,
     max_tasks_to_check |-> 0]

(***************************************************************************)
(* ResourceManager                                                         *)
(***************************************************************************)
ResourceManagerInit ==
    [k \in Kinds |->
        CASE k = "CPU" -> HardwareStatus("CPU_Internal", FLit(TOTAL_CPU_CORES, 1), "Cores")
          [] k = "GPU" -> HardwareStatus("GPU_Internal", FLit(TOTAL_GPU_POWER, 1), "%")
          [] k = "RAM" -> HardwareStatus("RAM_Internal", FLit(TOTAL_RAM_GB, 1), "GB")]

\* the kinds of a request that the manager tracks
Known(hw, task) == DOMAIN task.resource_request \cap DOMAIN hw

\* mutant: the availability check is skipped
can_allocate_unchecked(hw, task) == TRUE

\* allocate_resources: step 1, the availability check
can_allocate(hw, task) ==
    \A k \in Known(hw, task) : ~(hw[k].available < task.resource_request[k])

\* mutant: a failed attempt keeps what it reserved of the kinds that fit
allocate_resources_partial(hw, task) ==
    IF can_allocate(hw, task)
    THEN [ok |-> TRUE,
          hardware |-> [k \in DOMAIN hw |->
              IF k \in Known(hw, task)
              THEN update_usage(hw[k], FAdd(hw[k].allocated, task.resource_request[k]))
              ELSE hw[k]],
          status |-> "Running"]
    ELSE [ok |-> FALSE,
          hardware |-> [k \in DOMAIN hw |->
              IF k \in Known(hw, task) /\ ~(hw[k].available < task.resource_request[k])
              THEN update_usage(hw[k], FAdd(hw[k].allocated, task.resource_request[k]))
              ELSE hw[k]],
          status |-> "Queued_Blocked"]

\* allocate_resources: the hardware and the task's status it leaves, and
\* the value it returns
allocate_resources(hw, task) ==
    IF can_allocate(hw, task)
    THEN [ok |-> TRUE,
          hardware |-> [k \in DOMAIN hw |->
              IF k \in Known(hw, task)
              THEN update_usage(hw[k], FAdd(hw[k].allocated, task.resource_request[k]))
              ELSE hw[k]],
          status |-> "Running"]
    ELSE [ok |-> FALSE, hardware |-> hw, status |-> "Queued_Blocked"]

\* mutant: the status of the task is not looked at
free_resources_unguarded(hw, task) ==
    [k \in DOMAIN hw |->
        IF k \in Known(hw, task)
        THEN update_usage(hw[k], FSub(hw[k].allocated, task.resource_request[k]))
        ELSE hw[k]]

\* free_resources: the hardware it leaves
free_resources(hw, task) ==
    IF task.status # "Finished" THEN hw
    ELSE [k \in DOMAIN hw |->
              IF k \in Known(hw, task)
              THEN update_usage(hw[k], FSub(hw[k].allocated, task.resource_request[k]))
              ELSE hw[k]]

\* mutant: every device is taken for a graphics processor
ClassifyAsGPU(name) == "GPU"

\* add_external_hardware: which aggregate the name merges into
Classify(name) ==
    IF Contains(KeyName("GPU"), name) THEN "GPU"
    ELSE IF Contains(KeyName("RAM"), name) THEN "RAM"
    ELSE "none"

HybridName(k) == IF k = "GPU" THEN "GPU_Hybrid" ELSE "RAM_Hybrid"

NameExists(name) ==
    name \in {KeyName(k) : k \in DOMAIN hardware} \/ name \in DOMAIN external_hardware

add_external_hardware(name, capacity, unit) ==
    /\ Cardinality(DOMAIN external_hardware) < MaxExternal \/ NameExists(name)
    /\ IF NameExists(name)
       THEN /\ UNCHANGED <<hardware, external_hardware>>
            /\ last' = [Call("attach") EXCEPT !.name = name, !.capacity = capacity]
       ELSE /\ external_hardware' =
                [n \in DOMAIN external_hardware \cup {name} |->
                    IF n = name
                    THEN [HardwareStatus(name, capacity, unit) EXCEPT !.is_external = TRUE]
                    ELSE external_hardware[n]]
            /\ hardware' =
                IF Classify(name) = "none" THEN hardware
                ELSE [hardware EXCEPT
                        ![Classify(name)].total = FAdd(@, capacity),
                        ![Classify(name)].name = HybridName(Classify(name))]
            /\ last' = [Call("attach") EXCEPT !.name = name, !.capacity = capacity,
                                              !.ok = TRUE]
    /\ UNCHANGED <<kgm, drivers, tasks, task_queue, running_tasks, finished_tasks, hist>>

\* mutant: the report brings available up to date before it reads it
get_status_report_refreshing ==
    /\ hardware' = [k \in DOMAIN hardware |->
                        update_usage(hardware[k], hardware[k].allocated)]
    /\ last' = [Call("report") EXCEPT !.report =
                    [Internal_Status |-> [k \in DOMAIN hardware |-> to_dict(hardware'[k])],
                     External_Status |-> [n \in DOMAIN external_hardware |->
                                             to_dict(external_hardware[n])]]]
    /\ UNCHANGED <<kgm, drivers, external_hardware, tasks, task_queue, running_tasks,
                   finished_tasks, hist>>

\* get_status_report: the two lists of the report, by key
get_status_report ==
    /\ last' = [Call("report") EXCEPT !.report =
                    [Internal_Status |-> [k \in DOMAIN hardware |-> to_dict(hardware[k])],
                     External_Status |-> [n \in DOMAIN external_hardware |->
                                             to_dict(external_hardware[n])]]]
    /\ UNCHANGED <<kgm, drivers, hardware, external_hardware, tasks, task_queue, running_tasks,
                   finished_tasks, hist>>

(***************************************************************************)
(* RealTimeScheduler                                                       *)
(***************************************************************************)
\* mutant: an element goes before the elements of equal key
RECURSIVE InsertDescUnstable(_, _, _)
InsertDescUnstable(s, x, ts) ==
    IF s = <<>> THEN <<x>>
    ELSE IF ts[Head(s)].priority > ts[x].priority
         THEN <<Head(s)>> \o InsertDescUnstable(Tail(s), x, ts)
         ELSE <<x>> \o s

\* sorted(..., key=priority, reverse=True) is stable: an element goes
\* behind every element whose key is not smaller
RECURSIVE InsertDesc(_, _, _)
InsertDesc(s, x, ts) ==
    IF s = <<>> THEN <<x>>
    ELSE IF ts[Head(s)].priority >= ts[x].priority
         THEN <<Head(s)>> \o InsertDesc(Tail(s), x, ts)
         ELSE <<x>> \o s

\* mutant: the queue is left in the order of arrival
SortedDescFifo(s, ts) == s

\* mutant: the newest entry first, the oldest last
SortedDescBackwards(s, ts) == [i \in 1 .. Len(s) |-> s[Len(s) + 1 - i]]

\* sorted(s, key=priority, reverse=True)
RECURSIVE SortedDesc(_, _)
SortedDesc(s, ts) ==
    IF s = <<>> THEN <<>>
    ELSE InsertDesc(SortedDesc(SubSeq(s, 1, Len(s) - 1), ts), s[Len(s)], ts)

submit_task(t) ==
    /\ t \in 1 .. Len(tasks)
    /\ task_queue' = SortedDesc(Append(task_queue, t), tasks)
    /\ hist' = [hist EXCEPT !.submitted = @ + 1]
    /\ last' = [Call("submit") EXCEPT !.task = t]
    /\ UNCHANGED <<kgm, drivers, hardware, external_hardware, tasks, running_tasks, finished_tasks>>

\* dispatch_tasks, step 1: the loop over list(running_tasks.items());
\* done is the set of running tasks whose completion test is true
RECURSIVE Reap(_, _, _)
Reap(snapshot, done, st) ==
    IF snapshot = <<>> THEN st
    ELSE LET t == Head(snapshot)
             finished == [st.tasks[t] EXCEPT !.status = "Finished"]
         IN IF t \in done
            THEN Reap(Tail(snapshot), done,
                      [hardware |-> free_resources(st.hardware, finished),
                       tasks |-> [st.tasks EXCEPT ![t] = finished],
                       running |-> Remove(st.running, t),
                       finished |-> Append(st.finished, t),
                       reaped |-> Append(st.reaped, t)])
            ELSE Reap(Tail(snapshot), done, st)

\* mutant: the request of the task is derived again, from the totals the
\* pool has when the task is attempted
AdmitOneRecomputing(t, st) ==
    LET again == [k \in DOMAIN st.tasks[t].resource_request |->
                     IF k \in Kinds
                     THEN Min2(FMul(FMul(st.tasks[t].complexity, Weight(k)),
                                    st.hardware[k].total),
                               FMul(MAX_ALLOCATION_PER_TASK, st.hardware[k].total))
                     ELSE st.tasks[t].resource_request[k]]
        task == [st.tasks[t] EXCEPT !.resource_request = again]
        res == {allocate_resources(st.hardware, task)}
    IN CHOOSE next \in
        {[hardware |-> r.hardware,
          tasks |-> [st.tasks EXCEPT ![t] = [task EXCEPT !.status = r.status]],
          queue |-> IF r.ok THEN Remove(st.queue, t) ELSE st.queue,
          running |-> IF r.ok THEN DictInsert(st.running, t) ELSE st.running,
          dispatched |-> IF r.ok THEN st.dispatched + 1 ELSE st.dispatched,
          scan |-> Append(st.scan, [task |-> t, ok |-> r.ok, hw |-> st.hardware])]
         : r \in res} : TRUE

\* dispatch_tasks, step 2, one task of tasks_to_process that is Pending or
\* Queued_Blocked
AdmitOne(t, st) ==
    LET res == {allocate_resources(st.hardware, st.tasks[t])}
    IN CHOOSE next \in
        {[hardware |-> r.hardware,
          tasks |-> [st.tasks EXCEPT ![t].status = r.status],
          queue |-> IF r.ok THEN Remove(st.queue, t) ELSE st.queue,
          running |-> IF r.ok THEN DictInsert(st.running, t) ELSE st.running,
          dispatched |-> IF r.ok THEN st.dispatched + 1 ELSE st.dispatched,
          scan |-> Append(st.scan, [task |-> t, ok |-> r.ok, hw |-> st.hardware])]
         : r \in res} : TRUE

\* dispatch_tasks, step 2: the loop over tasks_to_process
RECURSIVE Admit(_, _)
Admit(to_process, st) ==
    IF to_process = <<>> \/ st.dispatched >= MaxDispatchPerCycle THEN st
    ELSE LET t == Head(to_process)
         IN IF st.tasks[t].status \in {"Pending", "Queued_Blocked"}
            THEN Admit(Tail(to_process), AdmitOne(t, st))
            ELSE Admit(Tail(to_process), st)

\* mutant: the whole sequence
FirstNUnbounded(s, n) == s

\* s[:n], n >= 0
FirstN(s, n) == SubSeq(s, 1, Min2(n, Len(s)))

\* mutant: the admissions are attempted before the running tasks are reaped
DispatchResultAdmitFirst(done, max_tasks_to_check) ==
    LET admit == Admit(FirstN(task_queue, max_tasks_to_check),
                       [hardware |-> hardware, tasks |-> tasks,
                        queue |-> task_queue, running |-> running_tasks,
                        dispatched |-> 0, scan |-> <<>>])
        reap == Reap(running_tasks, done,
                     [hardware |-> admit.hardware, tasks |-> admit.tasks,
                      running |-> admit.running,
                      finished |-> finished_tasks, reaped |-> <<>>])
    IN [reap |-> reap,
        admit |-> [admit EXCEPT !.hardware = reap.hardware, !.tasks = reap.tasks,
                                !.running = reap.running]]

\* dispatch_tasks: what the two loops leave
DispatchResult(done, max_tasks_to_check) ==
    LET reap == Reap(running_tasks, done,
                     [hardware |-> hardware, tasks |-> tasks, running |-> running_tasks,
                      finished |-> finished_tasks, reaped |-> <<>>])
        admit == Admit(FirstN(task_queue, max_tasks_to_check),
                       [hardware |-> reap.hardware, tasks |-> reap.tasks,
                        queue |-> task_queue, running |-> reap.running,
                        dispatched |-> 0, scan |-> <<>>])
    IN [reap |-> reap, admit |-> admit]

Admitted(scan) ==
    LET ok == SelectSeq(scan, LAMBDA e : e.ok) IN [i \in 1 .. Len(ok) |-> ok[i].task]

dispatch_tasks(done, max_tasks_to_check) ==
    \E r \in {DispatchResult(done, max_tasks_to_check)} :
       /\ hardware' = r.admit.hardware
       /\ tasks' = r.admit.tasks
       /\ task_queue' = r.admit.queue
       /\ running_tasks' = r.admit.running
       /\ finished_tasks' = r.reap.finished
       /\ hist' = [hist EXCEPT !.admitted = @ \o
                      [i \in 1 .. Len(Admitted(r.admit.scan)) |->
                          [task |-> Admitted(r.admit.scan)[i], seen |-> hist.submitted,
                           reserved |-> tasks[Admitted(r.admit.scan)[i]].resource_request]]]
       /\ last' = [Call("dispatch") EXCEPT !.found = hardware,
                                            !.reaped = r.reap.reaped,
                                            !.scan = r.admit.scan,
                                            !.max_tasks_to_check = max_tasks_to_check]
       /\ UNCHANGED <<kgm, drivers, external_hardware>>

(***************************************************************************)
(* Calls made by the task producers and by the owner of a task.            *)
(***************************************************************************)
\* AGI_Task(...)
CreateTask(priority, complexity, max_tasks) ==
    /\ Len(tasks) < max_tasks
    /\ tasks' = Append(tasks, AGI_Task(priority, complexity))
    /\ last' = [Call("create") EXCEPT !.task = Len(tasks) + 1]
    /\ UNCHANGED <<kgm, drivers, hardware, external_hardware, task_queue, running_tasks,
                   finished_tasks, hist>>

\* AGI_Task(...) followed by task.resource_request["NPU"] = 1.0: a request
\* that names a kind the manager does not track
WithUnknownKind(task) ==
    [task EXCEPT !.resource_request =
        [k \in Kinds \cup {"NPU"} |-> IF k = "NPU" THEN FLit(1, 1) ELSE @[k]]]

CreateNpuTask(priority, complexity, max_tasks) ==
    /\ Len(tasks) < max_tasks
    /\ tasks' = Append(tasks, WithUnknownKind(AGI_Task(priority, complexity)))
    /\ last' = [Call("create") EXCEPT !.task = Len(tasks) + 1]
    /\ UNCHANGED <<kgm, drivers, hardware, external_hardware, task_queue, running_tasks,
                   finished_tasks, hist>>

\* task.execute_and_finish(duration)
execute_and_finish(t) ==
    /\ t \in 1 .. Len(tasks)
    /\ hist.direct < MaxDirect
    /\ hist' = [hist EXCEPT !.direct = @ + 1, !.marked = @ \cup {t}]
    /\ tasks' = [tasks EXCEPT ![t].status = "Finished"]
    /\ last' = [Call("finish") EXCEPT !.task = t]
    /\ UNCHANGED <<kgm, drivers, hardware, external_hardware, task_queue, running_tasks,
                   finished_tasks>>

\* rm.allocate_resources(task), called directly
Allocate(t) ==
    /\ t \in 1 .. Len(tasks)
    /\ hist.direct < MaxDirect
    /\ hist' = [hist EXCEPT !.direct = @ + 1]
    /\ LET r == allocate_resources(hardware, tasks[t])
       IN /\ hardware' = r.hardware
          /\ tasks' = [tasks EXCEPT ![t].status = r.status]
          /\ last' = [Call("allocate") EXCEPT !.task = t, !.ok = r.ok]
    /\ UNCHANGED <<kgm, drivers, external_hardware, task_queue, running_tasks, finished_tasks>>

\* rm.free_resources(task), called directly
Free(t) ==
    /\ t \in 1 .. Len(tasks)
    /\ hist.direct < MaxDirect
    /\ hist' = [hist EXCEPT !.direct = @ + 1]
    /\ hardware' = free_resources(hardware, tasks[t])
    /\ last' = [Call("free") EXCEPT !.task = t, !.ok = (tasks[t].status = "Finished"),
                                    !.found = hardware]
    /\ UNCHANGED <<kgm, drivers, external_hardware, tasks, task_queue, running_tasks,
                   finished_tasks>>

(***************************************************************************)
(* dispatch_tasks called from several threads: a call advances statement   *)
(* by statement, and the statements of the calls interleave.               *)
(***************************************************************************)
Threads == 1 .. 2

\* a thread outside dispatch_tasks
Idle ==
    [pc |-> "idle", tasks_to_process |-> <<>>, task |-> 0, tasks_dispatched |-> 0,
     raised |-> FALSE]

DriversInit(exclusive) ==
    [exclusive |-> exclusive, thread |-> [i \in Threads |-> Idle], held |-> <<>>]

AllIdle == \A i \in Threads : drivers.thread[i].pc = "idle"

Held(t) == IF t \in DOMAIN drivers.held THEN drivers.held[t] ELSE 0

\* allocate_resources, step 2: the loop that books the request
book_request(hw, task) ==
    [k \in DOMAIN hw |->
        IF k \in Known(hw, task)
        THEN update_usage(hw[k], FAdd(hw[k].allocated, task.resource_request[k]))
        ELSE hw[k]]

\* the call begins: the reap loop, then tasks_to_process is taken
Enter(i, done) ==
    /\ drivers.thread[i].pc = "idle"
    /\ drivers.exclusive => AllIdle
    /\ \E reap \in {Reap(running_tasks, done,
                          [hardware |-> hardware, tasks |-> tasks,
                           running |-> running_tasks, finished |-> finished_tasks,
                           reaped |-> <<>>])} :
          /\ hardware' = reap.hardware
          /\ tasks' = reap.tasks
          /\ running_tasks' = reap.running
          /\ finished_tasks' = reap.finished
          /\ drivers' = [drivers EXCEPT
                 !.thread[i] = [Idle EXCEPT !.pc = "scan",
                                            !.tasks_to_process =
                                                FirstN(task_queue, MaxTasksToCheck)],
                 !.held = [t \in 1 .. Len(tasks) |->
                              IF t \in Range(reap.reaped) /\ Held(t) > 0
                              THEN Held(t) - 1 ELSE Held(t)]]
          /\ last' = [Call("enter") EXCEPT !.reaped = reap.reaped]
    /\ UNCHANGED <<kgm, external_hardware, task_queue, hist>>

\* the head of the for loop: the limit, the next task, the test of its status
NextTask(i) ==
    LET d == drivers.thread[i]
    IN /\ d.pc = "scan"
       /\ IF d.tasks_to_process = <<>> \/ d.tasks_dispatched >= MaxDispatchPerCycle
          THEN drivers' = [drivers EXCEPT !.thread[i] = Idle]
          ELSE drivers' = [drivers EXCEPT !.thread[i] =
                  [d EXCEPT !.tasks_to_process = Tail(@),
                            !.task = Head(d.tasks_to_process),
                            !.pc = IF tasks[Head(d.tasks_to_process)].status
                                        \in {"Pending", "Queued_Blocked"}
                                   THEN "check" ELSE "scan"]]
       /\ last' = Call("next")
       /\ UNCHANGED <<kgm, hardware, external_hardware, tasks, task_queue, running_tasks,
                      finished_tasks, hist>>

\* allocate_resources, step 1: the availability check
Check(i) ==
    LET d == drivers.thread[i]
    IN /\ d.pc = "check"
       /\ IF can_allocate(hardware, tasks[d.task])
          THEN /\ drivers' = [drivers EXCEPT !.thread[i].pc = "book"]
               /\ tasks' = tasks
          ELSE /\ drivers' = [drivers EXCEPT !.thread[i].pc = "scan"]
               /\ tasks' = [tasks EXCEPT ![d.task].status = "Queued_Blocked"]
       /\ last' = [Call("check") EXCEPT !.task = d.task]
       /\ UNCHANGED <<kgm, hardware, external_hardware, task_queue, running_tasks,
                      finished_tasks, hist>>

\* allocate_resources, step 2, and the status it sets
Book(i) ==
    LET d == drivers.thread[i]
    IN /\ d.pc = "book"
       /\ hardware' = book_request(hardware, tasks[d.task])
       /\ tasks' = [tasks EXCEPT ![d.task].status = "Running"]
       /\ drivers' = [drivers EXCEPT
              !.thread[i].pc = "insert",
              !.held = [t \in 1 .. Len(tasks) |->
                           IF t = d.task THEN Held(t) + 1 ELSE Held(t)]]
       /\ last' = [Call("book") EXCEPT !.task = d.task, !.ok = TRUE]
       /\ UNCHANGED <<kgm, external_hardware, task_queue, running_tasks, finished_tasks,
                      hist>>

\* the task enters running_tasks and leaves the queue; deque.remove raises
\* ValueError when the task is no longer queued, which ends the call
Insert(i) ==
    LET d == drivers.thread[i]
    IN /\ d.pc = "insert"
       /\ running_tasks' = DictInsert(running_tasks, d.task)
       /\ IF d.task \in Range(task_queue)
          THEN /\ task_queue' = Remove(task_queue, d.task)
               /\ drivers' = [drivers EXCEPT !.thread[i].pc = "scan",
                                             !.thread[i].tasks_dispatched = @ + 1]
          ELSE /\ task_queue' = task_queue
               /\ drivers' = [drivers EXCEPT !.thread[i] = [Idle EXCEPT !.raised = TRUE]]
       /\ last' = [Call("insert") EXCEPT !.task = d.task]
       /\ UNCHANGED <<kgm, hardware, external_hardware, tasks, finished_tasks, hist>>

(***************************************************************************)
(* KnowledgeGraphManager (arona_symbolic_core.py): the store of entities   *)
(* and relationships. The limits of the source are 50,000,000 entities and *)
(* 250,000,000 relationships; the model takes small ones, so that a full   *)
(* store is reached.                                                       *)
(***************************************************************************)
KG_ENTITY_LIMIT == 2
KG_RELATION_LIMIT == 3

\* the uids and names entities are built with, and the uids of relationships
EntityUids == {"u1", "u2", "u3"}
EntityNames == {"Arona", "Plana", "Sensei"}
RelationshipUids == {"r1", "r2"}

\* Entity(name, entity_type, uid)
Entity(name, uid) == [uid |-> uid, name |-> name]

\* Relationship(source_uid, target_uid, relation_type) with the uid it drew
Relationship(uid, source_uid, target_uid) ==
    [uid |-> uid, source_uid |-> source_uid, target_uid |-> target_uid]

KnowledgeGraphManagerInit ==
    [entities |-> <<>>, relationships |-> <<>>, entity_name_map |-> <<>>,
     total_entities |-> 0, total_relationships |-> 0]

\* d[k] = v
DictSet(d, k, v) == [x \in DOMAIN d \cup {k} |-> IF x = k THEN v ELSE d[x]]

\* mutant: only the uid of the entity is looked up
add_entity_by_uid(entity) ==
    /\ IF kgm.total_entities >= KG_ENTITY_LIMIT \/ entity.uid \in DOMAIN kgm.entities
       THEN /\ kgm' = kgm
            /\ last' = [Call("add_entity") EXCEPT !.name = entity, !.ok = FALSE]
       ELSE /\ kgm' = [kgm EXCEPT
                   !.entities = DictSet(@, entity.uid, entity),
                   !.entity_name_map = DictSet(@, entity.name, entity.uid),
                   !.total_entities = @ + 1]
            /\ last' = [Call("add_entity") EXCEPT !.name = entity, !.ok = TRUE]
    /\ UNCHANGED <<hardware, external_hardware, tasks, task_queue, running_tasks,
                   finished_tasks, hist, drivers>>

add_entity(entity) ==
    /\ IF kgm.total_entities >= KG_ENTITY_LIMIT
       THEN /\ kgm' = kgm
            /\ last' = [Call("add_entity") EXCEPT !.name = entity, !.ok = FALSE]
       ELSE IF \/ entity.uid \in DOMAIN kgm.entities
               \/ entity.name \in DOMAIN kgm.entity_name_map
       THEN /\ kgm' = kgm
            /\ last' = [Call("add_entity") EXCEPT !.name = entity, !.ok = FALSE]
       ELSE /\ kgm' = [kgm EXCEPT
                   !.entities = DictSet(@, entity.uid, entity),
                   !.entity_name_map = DictSet(@, entity.name, entity.uid),
                   !.total_entities = @ + 1]
            /\ last' = [Call("add_entity") EXCEPT !.name = entity, !.ok = TRUE]
    /\ UNCHANGED <<hardware, external_hardware, tasks, task_queue, running_tasks,
                   finished_tasks, hist, drivers>>

add_relationship(relationship) ==
    /\ IF kgm.total_relationships >= KG_RELATION_LIMIT
       THEN /\ kgm' = kgm
            /\ last' = [Call("add_relationship") EXCEPT !.name = relationship,
                                                        !.ok = FALSE]
       ELSE IF \/ relationship.source_uid \notin DOMAIN kgm.entities
               \/ relationship.target_uid \notin DOMAIN kgm.entities
       THEN /\ kgm' = kgm
            /\ last' = [Call("add_relationship") EXCEPT !.name = relationship,
                                                        !.ok = FALSE]
       ELSE /\ kgm' = [kgm EXCEPT
                   !.relationships = DictSet(@, relationship.uid, relationship),
                   !.total_relationships = @ + 1]
            /\ last' = [Call("add_relationship") EXCEPT !.name = relationship,
                                                        !.ok = TRUE]
    /\ UNCHANGED <<hardware, external_hardware, tasks, task_queue, running_tasks,
                   finished_tasks, hist, drivers>>

(***************************************************************************)
(* Specifications.                                                         *)
(***************************************************************************)
Init ==
    /\ hardware = ResourceManagerInit
    /\ external_hardware = <<>>
    /\ tasks = <<>>
    /\ task_queue = <<>>
    /\ running_tasks = <<>>
    /\ finished_tasks = <<>>
    /\ last = Call("init")
    /\ hist = [submitted |-> 0, admitted |-> <<>>, direct |-> 0, marked |-> {}]
    /\ drivers = DriversInit(TRUE)
    /\ kgm = KnowledgeGraphManagerInit

\* two driver threads, with or without mutual exclusion between their calls
InitThreads ==
    /\ hardware = ResourceManagerInit
    /\ external_hardware = <<>>
    /\ tasks = <<>>
    /\ task_queue = <<>>
    /\ running_tasks = <<>>
    /\ finished_tasks = <<>>
    /\ last = Call("init")
    /\ hist = [submitted |-> 0, admitted |-> <<>>, direct |-> 0, marked |-> {}]
    /\ \E exclusive \in BOOLEAN : drivers = DriversInit(exclusive)
    /\ kgm = KnowledgeGraphManagerInit

Create == \E k \in TaskKinds : CreateTask(k.priority, k.complexity, MaxTasks)
CreateAny == \E p \in Priorities, c \in AnyComplexities : CreateTask(p, c, MaxAnyTasks)
\* the priority of a task plays no part in the direct calls
CreateFew == \E k \in TaskKinds : CreateTask(k.priority, k.complexity, MaxWindowTasks)
CreateNpu == \E k \in TaskKinds : CreateNpuTask(k.priority, k.complexity, MaxNpuTasks)
CreateApi == \E c \in Complexities : CreateTask(HIGH, c, MaxApiTasks)
\* the producers submit each task they create, once, in the order of creation
Submit == submit_task(hist.submitted + 1)
\* the producers work while no dispatch is under way; their tasks take half
\* of the RAM each
CreateIdle == AllIdle /\ CreateTask(CRITICAL, FLit(10, 10), MaxWindowTasks)
SubmitIdle == AllIdle /\ Submit
Begin == \E i \in Threads, done \in SUBSET Range(running_tasks) : Enter(i, done)
Step == \E i \in Threads : NextTask(i) \/ Check(i) \/ Book(i) \/ Insert(i)
\* sustained load: a task of high priority and modest size comes first, and
\* critical tasks of full size keep coming after it; the driver calls
\* dispatch whenever two critical tasks are waiting, and any of the
\* running tasks may have completed by then
CreateLoad ==
    IF tasks = <<>>
    THEN CreateTask(HIGH, FLit(4, 10), MaxLoadTasks)
    ELSE CreateTask(CRITICAL, FLit(10, 10), MaxLoadTasks)
DispatchLoad ==
    /\ Cardinality({i \in 1 .. Len(task_queue) :
                        tasks[task_queue[i]].priority = CRITICAL}) >= 2
    /\ \E done \in SUBSET Range(running_tasks) : dispatch_tasks(done, MaxTasksToCheck)
\* submit_task on any task created so far, submitted before or not
SubmitAny == hist.submitted < MaxSubmits /\ \E t \in 1 .. Len(tasks) : submit_task(t)
Dispatch == \E done \in SUBSET Range(running_tasks) : dispatch_tasks(done, MaxTasksToCheck)
\* a dispatch that finds all the running tasks older than half a second
DispatchDue == dispatch_tasks(Range(running_tasks), MaxTasksToCheck)
\* the scheduler has a task to admit or to reap
Work == task_queue # <<>> \/ running_tasks # <<>>
DispatchWindow ==
    \E done \in SUBSET Range(running_tasks), w \in Windows : dispatch_tasks(done, w)
Attach == \E n \in ExternalNames, c \in Capacities : add_external_hardware(n, c, "%")
\* the hot-plug of memory, the resource the tasks compete for
AttachOther == \E n \in OtherNames, c \in Capacities : add_external_hardware(n, c, "Cores")
AttachRAM == \E c \in Capacities : add_external_hardware(ExtRAM, c, "GB")
\* tasks of complexity 0, of a complexity in the documented range and of
\* one above it
CreateWide ==
    \E p \in Priorities, c \in {x \in AnyComplexities : x >= 0} :
        CreateTask(p, c, MaxApiTasks)
Finish == \E t \in 1 .. MaxApiTasks : execute_and_finish(t)
Reserve == \E t \in 1 .. MaxApiTasks : Allocate(t)
Release == \E t \in 1 .. MaxApiTasks : Free(t)
Report == get_status_report

\* task construction and hot-plug alone, over every complexity
NextCreate == CreateAny \/ Attach \/ AttachOther
SpecCreate == Init /\ [][NextCreate]_vars

\* the scheduler driven through submit and dispatch, with hot-plug
NextSched == Create \/ Submit \/ Dispatch \/ AttachRAM
SpecSched == Init /\ [][NextSched]_vars

\* the scheduler called with windows of several widths
NextWindow == CreateFew \/ Submit \/ DispatchWindow
SpecWindow == Init /\ [][NextWindow]_vars

\* dispatch_tasks called by two threads
NextThreads == CreateIdle \/ SubmitIdle \/ Begin \/ Step
SpecThreads == InitThreads /\ [][NextThreads]_vars

\* the scheduler with tasks of any complexity that is not negative
NextWide == CreateWide \/ Submit \/ Dispatch \/ AttachRAM
SpecWide == Init /\ [][NextWide]_vars

\* the scheduler under a finite load, called again and again: a dispatch
\* that comes more than half a second after the last admission finds every
\* running task due. The fairness is weak fairness of DispatchDue, written
\* out with the condition under which that call has something to do.
NextLive == CreateApi \/ Submit \/ Dispatch
SpecLive ==
    Init /\ [][NextLive]_vars /\ ([]<>(~Work) \/ []<><<DispatchDue>>_vars)

\* the knowledge graph of the task producers
AddEntity == \E n \in EntityNames, u \in EntityUids : add_entity(Entity(n, u))
AddRelationship ==
    \E r \in RelationshipUids, a \in EntityUids, b \in EntityUids :
        add_relationship(Relationship(r, a, b))
NextGraph == AddEntity \/ AddRelationship
SpecGraph == Init /\ [][NextGraph]_vars

\* the scheduler under sustained load of critical tasks
NextLoad == CreateLoad \/ Submit \/ DispatchLoad
SpecLoad == Init /\ [][NextLoad]_vars

\* the scheduler with tasks submitted more than once, and hot-plug
NextResubmit == CreateApi \/ SubmitAny \/ Dispatch \/ AttachRAM
SpecResubmit == Init /\ [][NextResubmit]_vars

\* the scheduler with tasks submitted more than once and reservations made
\* directly on the manager
NextDirect == CreateApi \/ SubmitAny \/ Dispatch \/ Reserve
SpecDirect == Init /\ [][NextDirect]_vars

\* the scheduler serving tasks whose request names an untracked kind
NextUnknown == CreateNpu \/ Submit \/ Dispatch \/ AttachRAM
SpecUnknown == Init /\ [][NextUnknown]_vars

\* the scheduler and the hot-plug, with status reports taken in between
NextReport == CreateApi \/ Submit \/ Dispatch \/ Attach \/ Report
SpecReport == Init /\ [][NextReport]_vars

\* every public call of the task, the manager and the scheduler
Next == CreateApi \/ Submit \/ Dispatch \/ Attach \/ Finish \/ Reserve \/ Release
Spec == Init /\ [][Next]_vars

(***************************************************************************)
(* Properties.                                                             *)
(***************************************************************************)
Request(t) == tasks[t].resource_request
Priority(t) == tasks[t].priority

\* the request fits what the pool has left of every kind
Fits(hw, req) == \A k \in Kinds : req[k] <= hw[k].total - hw[k].allocated

\* the hardware a dispatch leaves behind its i-th admission attempt
AfterAttempt(scan, i, final) == IF i < Len(scan) THEN scan[i + 1].hw ELSE final

\* x is served before y: higher priority, or equal priority and submitted
\* earlier (tasks are submitted in the order of their ids)
Outranks(x, y) ==
    \/ Priority(x) > Priority(y)
    \/ Priority(x) = Priority(y) /\ x < y

\* the sum of what the tasks of a sequence request of a kind
RECURSIVE SumRequests(_, _)
SumRequests(s, k) ==
    IF s = <<>> THEN 0 ELSE Request(Head(s))[k] + SumRequests(Tail(s), k)

\* the pool has room for the requests of all the tasks of a sequence
JointlyFit(hw, s) ==
    \A k \in Kinds : SumRequests(s, k) <= hw[k].total - hw[k].allocated

\* the hardware a dispatch has after its reaping, before its first attempt
AfterReap(scan, final) == IF scan # <<>> THEN scan[1].hw ELSE final

\* the demand of a task before any limit is applied to it
Demand(complexity) ==
    [CPU |-> FMul(FMul(complexity, FLit(2, 10)), FLit(TOTAL_CPU_CORES, 1)),
     GPU |-> FMul(FMul(complexity, FLit(1, 10)), FLit(TOTAL_GPU_POWER, 1)),
     RAM |-> FMul(FMul(complexity, FLit(5, 10)), FLit(TOTAL_RAM_GB, 1))]

\* C1: for every aggregate kind (CPU, GPU, RAM), after every step of any
\* sequence of submit, dispatch, attach, reserve and release calls,
\* 0 <= allocated <= total.
C1_AllocatedWithinCapacity ==
    \A k \in Kinds :
        0 <= hardware[k].allocated /\ hardware[k].allocated <= hardware[k].total

\* a direct reservation was refused by a pool whose RAM is reserved in full
C1_Witness ==
    /\ last.op = "allocate" /\ ~last.ok
    /\ hardware["RAM"].allocated = hardware["RAM"].total
    /\ running_tasks # <<>>

\* C2: admission is all-or-nothing. When a dispatch tries a Pending or
\* Blocked task and some kind of its request exceeds what the pool has left of
\* that kind, the attempt changes no kind's allocated, the task is Blocked
\* afterwards and still queued, and the queue keeps the relative order of
\* the tasks that stay in it. A blocked task does not end the scan: unless
\* the dispatch admits its two tasks, it tries every task among the first
\* five of the queue, so that two tasks that both lack a resource are both
\* Blocked by one dispatch and allocated is as before.
C2_AllOrNothing ==
    [][last'.op = "dispatch" =>
        /\ \A i \in 1 .. Len(last'.scan) :
              LET e == last'.scan[i]
              IN ~Fits(e.hw, Request(e.task)) =>
                    /\ ~e.ok
                    /\ tasks[e.task].status \in {"Pending", "Queued_Blocked"}
                    /\ \A k \in Kinds :
                          AfterAttempt(last'.scan, i, hardware')[k].allocated
                              = e.hw[k].allocated
                    /\ tasks'[e.task].status = "Queued_Blocked"
                    /\ e.task \in Range(task_queue')
        /\ task_queue' = SelectSeq(task_queue,
                             LAMBDA t : t \notin Range(Admitted(last'.scan)))
        /\ Len(Admitted(last'.scan)) < MaxDispatchPerCycle =>
              \A t \in Range(FirstN(task_queue, MaxTasksToCheck)) :
                  \E i \in 1 .. Len(last'.scan) : last'.scan[i].task = t
      ]_vars

\* two tasks are running and a dispatch tried two queued tasks: neither
\* request fitted, both are Blocked and still queued, and the pool is as the
\* dispatch found it
C2_Witness ==
    /\ last.op = "dispatch"
    /\ Len(running_tasks) = 2
    /\ Len(last.scan) = 2
    /\ \A i \in 1 .. 2 :
          /\ ~last.scan[i].ok
          /\ ~Fits(last.scan[i].hw, Request(last.scan[i].task))
          /\ tasks[last.scan[i].task].status = "Queued_Blocked"
          /\ last.scan[i].task \in Range(task_queue)
    /\ hardware = last.scan[1].hw

\* C3: after any sequence of submit and dispatch calls the queue is ordered
\* by priority, highest first, and two queued tasks of equal priority stand
\* in the order of their submission.
C3_PriorityThenFifo ==
    \A i, j \in 1 .. Len(task_queue) :
        i < j =>
            /\ Priority(task_queue[i]) >= Priority(task_queue[j])
            /\ Priority(task_queue[i]) = Priority(task_queue[j])
                  => task_queue[i] < task_queue[j]

\* three tasks are queued; one submitted later stands before one submitted
\* earlier, and two of equal priority are queued
C3_Witness ==
    /\ Len(task_queue) = 3
    /\ last.op = "submit"
    /\ \E i, j \in 1 .. Len(task_queue) : i < j /\ task_queue[i] > task_queue[j]
    /\ \E i, j \in 1 .. Len(task_queue) :
          i < j /\ Priority(task_queue[i]) = Priority(task_queue[j])

\* C4: when the requests of all the queued tasks fit the pool, a dispatch
\* admits tasks in the order of priority, highest first, and earlier
\* submission first among equal priorities: the tasks it admits are in that
\* order, and each of them goes before every task it leaves queued.
C4_AdmissionOrder ==
    [][(/\ last'.op = "dispatch"
        /\ last'.scan # <<>>
        /\ JointlyFit(AfterReap(last'.scan, hardware'), task_queue)) =>
          LET adm == Admitted(last'.scan)
          IN /\ \A i, j \in 1 .. Len(adm) : i < j => Outranks(adm[i], adm[j])
             /\ \A i \in 1 .. Len(adm) :
                   \A y \in Range(task_queue') : Outranks(adm[i], y)
      ]_vars

\* C5: a dispatch admits at most two tasks. When the first n tasks of the
\* queue (2 <= n <= 5; five in the example of the claim) are Pending and
\* the pool has room for their requests, the dispatch admits exactly the
\* first two of them, the others stay queued and Pending, and nothing is
\* reserved beyond the requests of the two.
C5_ThroughputCap ==
    [][last'.op = "dispatch" =>
        LET hw0 == AfterReap(last'.scan, hardware')
        IN /\ Len(Admitted(last'.scan)) <= MaxDispatchPerCycle
           /\ \A n \in 2 .. Min2(MaxTasksToCheck, Len(task_queue)) :
                 (/\ \A i \in 1 .. n : tasks[task_queue[i]].status = "Pending"
                  /\ JointlyFit(hw0, FirstN(task_queue, n))) =>
                     /\ Admitted(last'.scan) = FirstN(task_queue, 2)
                     /\ \A i \in 3 .. n :
                           /\ tasks'[task_queue[i]].status = "Pending"
                           /\ task_queue[i] \in Range(task_queue')
                     /\ \A k \in Kinds :
                           hardware'[k].allocated =
                               FAdd(FAdd(hw0[k].allocated, Request(task_queue[1])[k]),
                                    Request(task_queue[2])[k])
      ]_vars

\* C6: the status of a task changes only from Pending to Running or to
\* Blocked, from Blocked to Running, and from Running to Finished, whatever
\* is called on the task, the manager and the scheduler.
C6_StatusTransitions ==
    [][\A t \in 1 .. Len(tasks) :
          \/ tasks'[t].status = tasks[t].status
          \/ <<tasks[t].status, tasks'[t].status>> \in
                {<<"Pending", "Running">>, <<"Pending", "Queued_Blocked">>,
                 <<"Queued_Blocked", "Running">>, <<"Running", "Finished">>}
      ]_vars

\* C7: attaching a new name that merges into an aggregate kind raises, in
\* that call, the total and the available amount of the kind by the
\* attached capacity; available is the field the admission check reads.
C7_AttachRaisesAvailable ==
    [][(/\ last'.op = "attach"
        /\ last'.ok
        /\ Classify(last'.name) # "none") =>
          LET k == Classify(last'.name)
          IN /\ hardware'[k].total = hardware[k].total + last'.capacity
             /\ hardware'[k].available = hardware[k].available + last'.capacity
      ]_vars

\* C8: in every state, for every resource, internal or external, the
\* available amount is total - allocated and is not negative.
C8_AvailableIsDerived ==
    /\ \A k \in Kinds :
          /\ hardware[k].available = FSub(hardware[k].total, hardware[k].allocated)
          /\ hardware[k].available >= 0
    /\ \A n \in DOMAIN external_hardware :
          /\ external_hardware[n].available =
                 FSub(external_hardware[n].total, external_hardware[n].allocated)
          /\ external_hardware[n].available >= 0

\* C9: a dispatch admits a task as its last attempt and the next call is a
\* dispatch that reaps that task and no other: once the task is released,
\* allocated of every kind is what it was before the task was admitted.
C9_RoundTrip ==
    [][(/\ last.op = "dispatch"
        /\ last.scan # <<>>
        /\ last.scan[Len(last.scan)].ok
        /\ last'.op = "dispatch"
        /\ last'.reaped = <<last.scan[Len(last.scan)].task>>) =>
          \A k \in Kinds :
              AfterReap(last'.scan, hardware')[k].allocated
                  = last.scan[Len(last.scan)].hw[k].allocated
      ]_vars

\* C10: for every task, whatever its complexity, and every kind, twice the
\* request is at most the total capacity of the kind, also after a
\* hot-plug. The limit acts on each kind by itself: it never raises a
\* request, and a request whose demand is within half of the capacity the
\* kind is built with is the demand, whatever the other kinds are cut to.
C10_PerTaskCeiling ==
    \A built \in {ResourceManagerInit} :
        \A t \in 1 .. Len(tasks) :
            \A demand \in {Demand(tasks[t].complexity)} :
                \A k \in Kinds :
                    /\ 2 * Request(t)[k] <= hardware[k].total
                    /\ Request(t)[k] <= demand[k]
                    /\ 2 * demand[k] <= built[k].total => Request(t)[k] = demand[k]

\* capacity was hot-plugged; a task of complexity 1.0 requests half of the
\* RAM there was at the start, and of another task the CPU and RAM requests
\* are cut to the ceiling while its GPU request is its demand
C10_Witness ==
    /\ last.op = "create"
    /\ external_hardware # <<>>
    /\ \E t \in 1 .. Len(tasks) :
          /\ tasks[t].complexity = FLit(10, 10)
          /\ 2 * Request(t)["RAM"] = ResourceManagerInit["RAM"].total
    /\ \E t \in 1 .. Len(tasks) :
          /\ Request(t)["CPU"] < Demand(tasks[t].complexity)["CPU"]
          /\ Request(t)["RAM"] < Demand(tasks[t].complexity)["RAM"]
          /\ Request(t)["GPU"] = Demand(tasks[t].complexity)["GPU"]
          /\ Request(t)["GPU"] > 0

\* C11: a reservation succeeds if and only if the pool has room for it,
\* request <= total - allocated for every kind, the boundary included; when
\* it succeeds allocated grows by the request, and when it fails nothing of
\* the pool changes.
C11_ReserveIffRoom ==
    [][last'.op = "allocate" =>
        /\ last'.ok <=> Fits(hardware, Request(last'.task))
        /\ last'.ok =>
              \A k \in Kinds :
                  hardware'[k].allocated =
                      FAdd(hardware[k].allocated, Request(last'.task)[k])
        /\ ~last'.ok => hardware' = hardware /\ external_hardware' = external_hardware
      ]_vars

\* allocated of a kind once the requests of the tasks of a sequence are
\* taken off it, one after the other
RECURSIVE LessRequests(_, _, _)
LessRequests(a, s, k) ==
    IF s = <<>> THEN a ELSE LessRequests(FSub(a, Request(Head(s))[k]), Tail(s), k)

\* C12: a dispatch that finds Running tasks complete leaves each of them
\* Finished and out of the running set, appends them to the finished
\* sequence, and takes the request of each off allocated of every kind;
\* the Running tasks that are not complete stay Running, keep their order
\* in the running set, and nothing of theirs is released.
C12_ReapStep ==
    [][last'.op = "dispatch" =>
        LET reaped == last'.reaped
            kept == SelectSeq(running_tasks, LAMBDA t : t \notin Range(reaped))
        IN /\ \A t \in Range(reaped) :
                 /\ t \in Range(running_tasks)
                 /\ tasks'[t].status = "Finished"
                 /\ t \notin Range(running_tasks')
           /\ finished_tasks' = finished_tasks \o reaped
           /\ \A k \in Kinds :
                 AfterReap(last'.scan, hardware')[k].allocated
                     = LessRequests(hardware[k].allocated, reaped, k)
           /\ \A t \in Range(kept) : tasks'[t].status = tasks[t].status
           /\ kept = FirstN(running_tasks', Len(kept))
      ]_vars

\* C13: a dispatch moves a Running task to Finished only if its owner has
\* signalled completion for it (the one completion call a task has is
\* execute_and_finish); a Running task whose completion was never signalled
\* is still Running, in the running set, after the dispatch, and the
\* dispatch releases nothing of it.
C13_ReapOnlyMarked ==
    [][last'.op = "dispatch" =>
        /\ Range(last'.reaped) \subseteq hist.marked
        /\ \A t \in Range(running_tasks) \ hist.marked :
              /\ tasks'[t].status = tasks[t].status
              /\ t \in Range(running_tasks')
      ]_vars

\* the characters of the name of an aggregate resource
Chars(name) ==
    CASE name = "CPU_Internal" -> <<"C", "P", "U", "_", "I", "n", "t", "e", "r", "n", "a", "l">>
      [] name = "GPU_Internal" -> <<"G", "P", "U", "_", "I", "n", "t", "e", "r", "n", "a", "l">>
      [] name = "RAM_Internal" -> <<"R", "A", "M", "_", "I", "n", "t", "e", "r", "n", "a", "l">>
      [] name = "GPU_Hybrid" -> <<"G", "P", "U", "_", "H", "y", "b", "r", "i", "d">>
      [] name = "RAM_Hybrid" -> <<"R", "A", "M", "_", "H", "y", "b", "r", "i", "d">>

\* the names of the resources of the pool, internal and external
PoolNames ==
    {Chars(hardware[k].name) : k \in Kinds}
        \cup {external_hardware[n].name : n \in DOMAIN external_hardware}

\* C14: attaching a name that a resource of the pool already has, an
\* internal resource or an external one attached before, changes no total,
\* allocated or available value and adds or replaces no entry.
C14_DuplicateIsNoOp ==
    [][(last'.op = "attach" /\ last'.name \in PoolNames) =>
          /\ hardware' = hardware
          /\ external_hardware' = external_hardware
      ]_vars

\* C15: an accepted attach records a standalone entry with is_external
\* set; when the name matches one of the kinds CPU, GPU, RAM the total of
\* that kind grows by the attached capacity, and the total and the
\* available amount of a kind the name does not match stay as they were.
C15_Classification ==
    [][(last'.op = "attach" /\ last'.ok) =>
          /\ last'.name \in DOMAIN external_hardware'
          /\ external_hardware'[last'.name].is_external
          /\ external_hardware'[last'.name].total = last'.capacity
          /\ \A k \in Kinds :
                IF Contains(KeyName(k), last'.name)
                THEN hardware'[k].total = FAdd(hardware[k].total, last'.capacity)
                ELSE /\ hardware'[k].total = hardware[k].total
                     /\ hardware'[k].available = hardware[k].available
      ]_vars

\* C16: a release called for a task whose status is not Finished (Pending,
\* Queued_Blocked or Running) is refused: it changes no total, allocated or
\* available value of any resource, no status, and no collection of the
\* scheduler.
C16_InvalidRelease ==
    [][(last'.op = "free" /\ tasks[last'.task].status # "Finished") =>
          /\ ~last'.ok
          /\ hardware' = hardware
          /\ external_hardware' = external_hardware
          /\ tasks' = tasks
          /\ <<task_queue, running_tasks, finished_tasks>>'
                = <<task_queue, running_tasks, finished_tasks>>
      ]_vars

\* a release was refused for a Running task that holds resources
C16_Witness ==
    /\ last.op = "free"
    /\ ~last.ok
    /\ tasks[last.task].status = "Running"
    /\ \A k \in Kinds : hardware[k].allocated >= tasks[last.task].resource_request[k]
    /\ hardware["RAM"].allocated > 0

\* C17: a task whose request names a kind the manager does not track is
\* admitted by a dispatch exactly when its requests of the tracked kinds
\* fit; the admission adds the requests to allocated of the tracked kinds
\* and a refusal adds nothing; no entry appears for the untracked kind, at
\* admission or when the task is reaped, and the reaping of one such task
\* takes its requests off the tracked kinds.
C17_UnknownKindSkipped ==
    [][last'.op = "dispatch" =>
        LET scan == last'.scan
            reaped == last'.reaped
        IN /\ DOMAIN hardware' = Kinds
           /\ external_hardware' = external_hardware
           /\ \A i \in 1 .. Len(scan) :
                 "NPU" \in DOMAIN Request(scan[i].task) =>
                    /\ scan[i].ok <=> Fits(scan[i].hw, Request(scan[i].task))
                    /\ \A k \in Kinds :
                          AfterAttempt(scan, i, hardware')[k].allocated =
                              IF scan[i].ok
                              THEN FAdd(scan[i].hw[k].allocated, Request(scan[i].task)[k])
                              ELSE scan[i].hw[k].allocated
           /\ (Len(reaped) = 1 /\ "NPU" \in DOMAIN Request(reaped[1])) =>
                 \A k \in Kinds :
                    AfterReap(scan, hardware')[k].allocated =
                        FMax0(FSub(hardware[k].allocated, Request(reaped[1])[k]))
      ]_vars

\* C18: the request of a task for a kind is
\* min(weight * complexity * T, 0.5 * T), T being the total of the kind in
\* the pool when the task is created, so that a task created after a
\* hot-plug derives its request from the enlarged total.
C18_RequestFromPoolTotal ==
    [][last'.op = "create" =>
        \A k \in Kinds :
            \A T \in {hardware[k].total} :
                tasks'[last'.task].resource_request[k] =
                    Min2(FMul(FMul(tasks'[last'.task].complexity, Weight(k)), T),
                         FMul(MAX_ALLOCATION_PER_TASK, T))
      ]_vars

\* C19: no step of the scheduler or of the hot-plug (create, submit,
\* dispatch with its admissions, refusals and reaping, attach) changes the
\* request of an existing task; hence the request that a reaping dispatch
\* hands to free_resources is the request that was handed to
\* allocate_resources when the task was admitted, whatever happened to the
\* totals of the pool in between.
C19_RequestFixed ==
    [][/\ \A t \in 1 .. Len(tasks) :
            tasks'[t].resource_request = tasks[t].resource_request
       /\ last'.op = "dispatch" =>
            \A t \in Range(last'.reaped) :
                \E i \in 1 .. Len(hist.admitted) :
                    /\ hist.admitted[i].task = t
                    /\ hist.admitted[i].reserved = tasks[t].resource_request
      ]_vars

\* a dispatch reaped a task that was admitted before memory was attached:
\* the dispatch started from a pool whose memory had grown since the last
\* reservation or release (available was behind total - allocated, which
\* every reservation and release brings up to date), so the hot-plug came
\* after the admission of every task that was running
C19_Witness ==
    /\ last.op = "dispatch"
    /\ last.reaped # <<>>
    /\ last.found["RAM"].available
          < FSub(last.found["RAM"].total, last.found["RAM"].allocated)
    /\ \A t \in Range(last.reaped) :
          /\ tasks[t].resource_request["RAM"] > 0
          /\ \E i \in 1 .. Len(hist.admitted) : hist.admitted[i].task = t

\* C20: a status report changes no total, allocated or available value of
\* any resource, no status, and none of the queue, the running set and the
\* finished sequence; a report that follows a report, with no call in
\* between, is equal to it.
C20_ReportReadOnly ==
    [][last'.op = "report" =>
          /\ hardware' = hardware
          /\ external_hardware' = external_hardware
          /\ tasks' = tasks
          /\ <<task_queue, running_tasks, finished_tasks>>'
                = <<task_queue, running_tasks, finished_tasks>>
          /\ last.op = "report" => last'.report = last.report
      ]_vars

\* a report was taken while a task was running and after a hot-plug that
\* left available behind total - allocated
C20_Witness ==
    /\ last.op = "report"
    /\ running_tasks # <<>>
    /\ \E k \in Kinds :
          /\ last.report.Internal_Status[k].allocated > 0
          /\ hardware[k].available < FSub(hardware[k].total, hardware[k].allocated)

\* allocated of a kind once the tasks of a sequence are released, one after
\* the other, each release floored at zero
RECURSIVE Released(_, _, _)
Released(a, s, k) ==
    IF s = <<>> THEN a
    ELSE Released(FMax0(FSub(a, Request(Head(s))[k])), Tail(s), k)

\* C21: in a dispatch the reaping is over before the first admission is
\* attempted: a task the dispatch admits is not among those it reaps and is
\* Running in the running set when the dispatch returns; the first
\* admission attempt finds the pool with everything the reaped tasks held
\* released; and in a dispatch that reaps, every task attempted (in the
\* window, before the cap) whose request fits what the pool has left after
\* the reaping and the earlier admissions of the call is admitted.
C21_ReapBeforeAdmit ==
    [][last'.op = "dispatch" =>
        LET scan == last'.scan
        IN /\ \A t \in Range(Admitted(scan)) :
                 /\ t \notin Range(last'.reaped)
                 /\ t \notin Range(finished_tasks')
                 /\ t \in Range(running_tasks')
                 /\ tasks'[t].status = "Running"
           /\ scan # <<>> =>
                 \A k \in Kinds :
                    scan[1].hw[k].allocated
                        = Released(hardware[k].allocated, last'.reaped, k)
           /\ last'.reaped # <<>> =>
                 \A i \in 1 .. Len(scan) :
                    Fits(scan[i].hw, Request(scan[i].task)) => scan[i].ok
      ]_vars

\* a dispatch admitted a task whose request did not fit the pool the
\* dispatch started from, and fitted once the dispatch had reaped
C21_Witness ==
    /\ last.op = "dispatch"
    /\ last.reaped # <<>>
    /\ \E i \in 1 .. Len(last.scan) :
          /\ last.scan[i].ok
          /\ ~Fits(last.found, Request(last.scan[i].task))
          /\ Fits(last.scan[i].hw, Request(last.scan[i].task))

\* the position of a task in a sequence that holds it
Position(s, t) == CHOOSE p \in 1 .. Len(s) : s[p] = t

\* the tasks a scan attempted
Attempted(scan) == {scan[i].task : i \in 1 .. Len(scan)}

\* the number of tasks a scan admitted from the queue positions before p
AdmittedBefore(scan, queue, p) ==
    Cardinality({i \in 1 .. Len(scan) : scan[i].ok /\ Position(queue, scan[i].task) < p})

\* C22: a refused admission does not end the scan: every Pending or
\* Queued_Blocked task in the first five positions of the queue is
\* attempted unless two tasks before it were admitted in the call, whether
\* or not tasks before it were refused; and a task attempted after a
\* refusal is admitted when its request fits what the pool has left.
C22_ScanContinues ==
    [][last'.op = "dispatch" =>
        LET scan == last'.scan
        IN /\ \A p \in 1 .. Min2(MaxTasksToCheck, Len(task_queue)) :
                 (/\ tasks[task_queue[p]].status \in {"Pending", "Queued_Blocked"}
                  /\ AdmittedBefore(scan, task_queue, p) < MaxDispatchPerCycle)
                     => task_queue[p] \in Attempted(scan)
           /\ \A i, j \in 1 .. Len(scan) :
                 (j < i /\ ~scan[j].ok /\ Fits(scan[i].hw, Request(scan[i].task)))
                     => scan[i].ok
      ]_vars

\* allocated of a kind once the requests of the tasks of a sequence are
\* added to it, one after the other
RECURSIVE PlusRequests(_, _, _)
PlusRequests(a, s, k) ==
    IF s = <<>> THEN a ELSE PlusRequests(FAdd(a, Request(Head(s))[k]), Tail(s), k)

\* C23: a dispatch attempts only tasks that stand in the first
\* max_tasks_to_check positions of the queue when its admissions begin;
\* the tasks behind that window keep their status, stay in the queue in
\* the order they had and do not enter the running set, and what the
\* dispatch reserves is the requests of tasks of the window only, also
\* when tasks of the window are admitted and leave the queue.
C23_ScanWindow ==
    [][last'.op = "dispatch" =>
        LET w == last'.max_tasks_to_check
            window == Range(FirstN(task_queue, w))
            behind == SubSeq(task_queue, Min2(w, Len(task_queue)) + 1, Len(task_queue))
        IN /\ Attempted(last'.scan) \subseteq window
           /\ \A t \in Range(behind) :
                 /\ tasks'[t].status = tasks[t].status
                 /\ t \notin Range(running_tasks')
           /\ SelectSeq(task_queue', LAMBDA t : t \in Range(behind)) = behind
           /\ \A k \in Kinds :
                 hardware'[k].allocated =
                     PlusRequests(Released(hardware[k].allocated, last'.reaped, k),
                                  Admitted(last'.scan), k)
      ]_vars

\* a dispatch with a window of one admitted the first task of the queue
\* and left a Pending task behind the window that the pool had room for
C23_Witness ==
    /\ last.op = "dispatch"
    /\ last.max_tasks_to_check = 1
    /\ Len(Admitted(last.scan)) = 1
    /\ \E p \in 1 .. Len(task_queue) :
          /\ tasks[task_queue[p]].status = "Pending"
          /\ Fits(hardware, Request(task_queue[p]))

\* C24: a release never leaves a negative allocated amount: the release of
\* a Finished task takes its request off allocated of every kind and,
\* where the request is larger than what is allocated (as when the same
\* task is released a second time), leaves 0; the call completes and
\* changes nothing else.
C24_ReleaseFloored ==
    [][(last'.op = "free" /\ last'.ok) =>
          /\ \A k \in Kinds :
                /\ hardware'[k].allocated >= 0
                /\ hardware'[k].allocated
                      = Max2(0, FSub(hardware[k].allocated, Request(last'.task)[k]))
                /\ Request(last'.task)[k] > hardware[k].allocated
                      => hardware'[k].allocated = 0
                /\ hardware'[k].total = hardware[k].total
          /\ tasks' = tasks
          /\ external_hardware' = external_hardware
      ]_vars

\* a Finished task was released while less than its request was allocated
C24_Witness ==
    /\ last.op = "free"
    /\ last.ok
    /\ \E k \in Kinds :
          /\ last.found[k].allocated > 0
          /\ last.found[k].allocated < Request(last.task)[k]
          /\ hardware[k].allocated = 0

\* C25: the finished sequence only grows at its end: what it held before a
\* step is a prefix of what it holds after the step, and no task stands in
\* it twice.
C25_FinishedAppendOnly ==
    [][/\ Len(finished_tasks') >= Len(finished_tasks)
       /\ SubSeq(finished_tasks', 1, Len(finished_tasks)) = finished_tasks
       /\ \A i, j \in 1 .. Len(finished_tasks') :
             finished_tasks'[i] = finished_tasks'[j] => i = j
      ]_vars

\* C26: starvation is possible. Under a load in which critical tasks keep
\* being submitted and keep completing, and dispatch is called whenever
\* two of them wait, the task of lower priority that was submitted first
\* never runs: in every state it is outside the running set and its status
\* is Pending or Queued_Blocked, however many critical tasks have been
\* admitted and have finished after its submission. Nothing in a dispatch
\* depends on how long a task has waited, so the load can go on for ever.
C26_LowPriorityStarved ==
    tasks # <<>> =>
        /\ tasks[1].status \in {"Pending", "Queued_Blocked"}
        /\ 1 \notin Range(running_tasks) \cup Range(finished_tasks)
        /\ hist.submitted >= 1 => 1 \in Range(task_queue)
        /\ \A i \in 1 .. Len(hist.admitted) : Priority(hist.admitted[i].task) = CRITICAL

\* the task of lower priority was submitted first and is still waiting,
\* refused by the last dispatch, after four critical tasks submitted
\* later were admitted and finished
C26_Witness ==
    /\ last.op = "dispatch"
    /\ 1 \in Range(task_queue)
    /\ tasks[1].status = "Queued_Blocked"
    /\ 1 \in Attempted(last.scan)
    /\ Len(finished_tasks) >= 4
    /\ \A i \in 1 .. Len(hist.admitted) : hist.admitted[i].seen > 1

C28_SerializedIsSafe ==
    drivers.exclusive =>
        /\ \A k \in Kinds : hardware[k].allocated <= hardware[k].total
        /\ \A t \in 1 .. Len(tasks) : Held(t) <= 1

\* two calls of dispatch interleaved without mutual exclusion: the request
\* of one task is booked twice and a kind has more allocated than its
\* total
C28_Witness ==
    /\ ~drivers.exclusive
    /\ \E t \in 1 .. Len(tasks) : Held(t) = 2
    /\ \E k \in Kinds : hardware[k].allocated > hardware[k].total

\* C29: after any sequence of submit, dispatch and attach calls, tasks
\* submitted again included, the allocated amount of each kind is the sum of
\* the requests of the tasks in the running set, and 0 when none is running.
\* The sum is taken in floating point, in the order of the running set.
C29_Conservation ==
    \A k \in Kinds : hardware[k].allocated = PlusRequests(0, running_tasks, k)

\* the number of places a task takes in a sequence
Count(s, t) == Cardinality({i \in 1 .. Len(s) : s[i] = t})

\* C30: with every task submitted at most once, after any sequence of
\* submit and dispatch calls each submitted task is in exactly one of the
\* queue, the running set and the finished list, once, and its status is
\* that of its container: Pending or Queued_Blocked in the queue, Running
\* in the running set, Finished in the finished list.
C30_OneContainer ==
    \A t \in 1 .. hist.submitted :
        \/ /\ Count(task_queue, t) = 1
           /\ Count(running_tasks, t) = 0
           /\ Count(finished_tasks, t) = 0
           /\ tasks[t].status \in {"Pending", "Queued_Blocked"}
        \/ /\ Count(task_queue, t) = 0
           /\ Count(running_tasks, t) = 1
           /\ Count(finished_tasks, t) = 0
           /\ tasks[t].status = "Running"
        \/ /\ Count(task_queue, t) = 0
           /\ Count(running_tasks, t) = 0
           /\ Count(finished_tasks, t) = 1
           /\ tasks[t].status = "Finished"

\* a dispatch has returned with every submitted task placed: one finished,
\* two running and one blocked in the queue
C30_Witness ==
    /\ last.op = "dispatch"
    /\ hist.submitted = MaxTasks
    /\ Len(finished_tasks) = 1
    /\ Len(running_tasks) = 2
    /\ \E i \in 1 .. Len(task_queue) : tasks[task_queue[i]].status = "Queued_Blocked"

\* C31: after any sequence of submit and dispatch calls, submissions of
\* tasks that are already queued, Running or Finished included, every entry
\* of the queue is Pending or Queued_Blocked: no Running or Finished task
\* holds a position of the queue.
C31_QueueHoldsWaiting ==
    \A i \in 1 .. Len(task_queue) :
        tasks[task_queue[i]].status \in {"Pending", "Queued_Blocked"}

\* C32: a dispatch passes over no task it could admit: when it admits a
\* task x and a task y that stood before x in the queue is still waiting in
\* the queue when it returns, then y was attempted, its request did not fit
\* the pool at that moment, it does not fit the pool the call leaves, and y
\* is Queued_Blocked.
C32_NoneSkipped ==
    [][last'.op = "dispatch" =>
        \A q \in 1 .. Len(task_queue) : \A p \in 1 .. q - 1 :
            \A x \in {task_queue[q]} : \A y \in {task_queue[p]} :
                (/\ x \in Range(Admitted(last'.scan))
                 /\ y \in Range(task_queue')
                 /\ tasks'[y].status \in {"Pending", "Queued_Blocked"})
                => /\ \E i \in 1 .. Len(last'.scan) :
                         /\ last'.scan[i].task = y
                         /\ ~last'.scan[i].ok
                         /\ ~Fits(last'.scan[i].hw, Request(y))
                   /\ ~Fits(hardware', Request(y))
                   /\ tasks'[y].status = "Queued_Blocked"]_vars

\* C33: a dispatch whose admissions begin with nothing running and a queue
\* that is not empty admits the task at the head of the queue: the first
\* attempt is that task and succeeds, since no request exceeds half of the
\* capacity of a kind. So no dispatch returns with a task waiting and
\* nothing running.
C33_IdlePoolAdmitsHead ==
    [][last'.op = "dispatch" =>
        /\ (/\ Range(running_tasks) \subseteq Range(last'.reaped)
            /\ task_queue # <<>>)
           => /\ last'.scan # <<>>
              /\ last'.scan[1].task = Head(task_queue)
              /\ last'.scan[1].ok
              /\ tasks'[Head(task_queue)].status = "Running"
              /\ Head(task_queue) \in Range(running_tasks')
        /\ running_tasks' = <<>> => task_queue' = <<>>]_vars

\* a dispatch reaped all that was running and then admitted the head of the
\* queue, a task whose demand is above the limit and whose request is half
\* of the RAM
C33_Witness ==
    /\ last.op = "dispatch"
    /\ last.reaped # <<>>
    /\ last.scan # <<>>
    /\ last.scan[1].ok
    /\ Range(running_tasks) = Range(Admitted(last.scan))
    /\ tasks[last.scan[1].task].complexity > FLit(10, 10)
    /\ Request(last.scan[1].task)["RAM"] = FMul(MAX_ALLOCATION_PER_TASK, FLit(TOTAL_RAM_GB, 1))

\* the status of the t-th task, if it was created
StatusOf(t) == IF t \in 1 .. Len(tasks) THEN tasks[t].status ELSE "none"

\* the scheduler holds no task and the pool holds no reservation
Drained ==
    /\ task_queue = <<>>
    /\ running_tasks = <<>>
    /\ \A k \in Kinds : hardware[k].allocated = 0

\* under a finite load, with dispatch called again and again and every
\* running task found due, every queued task becomes Running, every running
\* task becomes Finished, and the queue and the running set become empty
FiniteLoadProgress ==
    /\ \A t \in 1 .. MaxApiTasks :
          /\ (t \in Range(task_queue)) ~> (StatusOf(t) = "Running")
          /\ (t \in Range(running_tasks)) ~> (StatusOf(t) = "Finished")
    /\ (hist.submitted > 0) ~> (task_queue = <<>> /\ running_tasks = <<>>)

\* C34: under a finite load every submitted task becomes Running and then
\* Finished, and the system comes to a state with an empty queue, nothing
\* running and nothing allocated of any kind. Once every submitted task is
\* Finished no call changes the pool any more, so that state is the one in
\* which all of them are Finished: there the queue and the running set are
\* empty and allocated is 0 for every kind.
C34_DrainedWhenDone ==
    (/\ hist.submitted > 0
     /\ \A t \in 1 .. hist.submitted : tasks[t].status = "Finished")
    => Drained

\* C35: an attach changes capacity only: it leaves the allocated amount of
\* every kind, the total of every kind its name does not point to, every
\* task with its status and request, and the queue, the running set and
\* the finished list as they were; and the entry kept for the attached
\* device never has anything allocated.
C35_AttachFrame ==
    [][/\ last'.op = "attach" =>
            /\ \A k \in Kinds :
                  /\ hardware'[k].allocated = hardware[k].allocated
                  /\ ~Contains(KeyName(k), last'.name)
                        => hardware'[k].total = hardware[k].total
            /\ tasks' = tasks
            /\ task_queue' = task_queue
            /\ running_tasks' = running_tasks
            /\ finished_tasks' = finished_tasks
       /\ \A n \in DOMAIN external_hardware' : external_hardware'[n].allocated = 0]_vars

\* a device was attached while a task was running and resources were
\* allocated
C35_Witness ==
    /\ last.op = "attach"
    /\ last.ok
    /\ last.name \in DOMAIN external_hardware
    /\ running_tasks # <<>>
    /\ \E k \in Kinds : hardware[k].allocated > 0

\* a sequence without its i-th element
Without(s, i) == SubSeq(s, 1, i - 1) \o SubSeq(s, i + 1, Len(s))

\* C36: a submit changes the queue only: the queue it leaves is the queue
\* it found with the task put in at one place, the tasks already queued
\* keeping their order; the totals and the allocated amounts of the pool,
\* the running set, the finished list and the status of every task stay as
\* they were, so the submit admits no task.
C36_SubmitFrame ==
    [][last'.op = "submit" =>
        /\ \E i \in 1 .. Len(task_queue') :
              /\ task_queue'[i] = last'.task
              /\ Without(task_queue', i) = task_queue
        /\ \A k \in Kinds :
              /\ hardware'[k].total = hardware[k].total
              /\ hardware'[k].allocated = hardware[k].allocated
        /\ running_tasks' = running_tasks
        /\ finished_tasks' = finished_tasks
        /\ \A t \in 1 .. Len(tasks) : tasks'[t].status = tasks[t].status]_vars

\* a task was submitted and put before a queued task of lower priority and
\* behind a queued task, while another task was running
C36_Witness ==
    /\ last.op = "submit"
    /\ running_tasks # <<>>
    /\ \E i \in 2 .. Len(task_queue) - 1 :
          /\ task_queue[i] = last.task
          /\ Priority(task_queue[i]) > Priority(task_queue[i + 1])

\* C37: after any sequence of add_entity and add_relationship calls,
\* total_entities is the number of stored entities and the number of
\* entries of entity_name_map, every entity is stored under its uid and
\* found under its name, no two stored entities have the same name, a
\* refused add_entity changes nothing, and the two ends of every stored
\* relationship are stored entities.
C37_GraphConsistent ==
    [][/\ kgm'.total_entities = Cardinality(DOMAIN kgm'.entities)
       /\ kgm'.total_entities = Cardinality(DOMAIN kgm'.entity_name_map)
       /\ \A u \in DOMAIN kgm'.entities :
             /\ kgm'.entities[u].uid = u
             /\ kgm'.entities[u].name \in DOMAIN kgm'.entity_name_map
             /\ kgm'.entity_name_map[kgm'.entities[u].name] = u
       /\ \A u, v \in DOMAIN kgm'.entities :
             u # v => kgm'.entities[u].name # kgm'.entities[v].name
       /\ (last'.op = "add_entity" /\ ~last'.ok) => kgm' = kgm
       /\ \A r \in DOMAIN kgm'.relationships :
             /\ kgm'.relationships[r].source_uid \in DOMAIN kgm'.entities
             /\ kgm'.relationships[r].target_uid \in DOMAIN kgm'.entities]_vars

\* the store is full, holds a relationship between its two entities, and
\* has just refused an entity with a new uid and a new name
C37_Witness ==
    /\ last.op = "add_entity"
    /\ ~last.ok
    /\ last.name.uid \notin DOMAIN kgm.entities
    /\ last.name.name \notin DOMAIN kgm.entity_name_map
    /\ kgm.total_entities = KG_ENTITY_LIMIT
    /\ \E r \in DOMAIN kgm.relationships :
          kgm.relationships[r].source_uid # kgm.relationships[r].target_uid

====
